---- MODULE Spec2Model ----
(***************************************************************************)
(* Air-hockey environment (part3/air_hockey_env.py) and its play driver    *)
(* (part3/air_hockey.py) as a state machine.                               *)
(*                                                                         *)
(* Lengths are pixels, velocities pixels per second.  Quantities that the  *)
(* program holds as floating point fractions are kept as exact integers:   *)
(*   - an action component a stands for a / ActDen,                        *)
(*   - a force component f stands for f / ActDen,                          *)
(*   - a reward r stands for r / RewardDen (RewardDen = 1 / 0.001),        *)
(*   - the i-th observation component stands for obs[i] / ObsDen[i].       *)
(*                                                                         *)
(* The rigid-body engine (pymunk) is not part of the repository.  One call *)
(* of step() is given an "outcome" o that says what the engine did during  *)
(* that call: whether the ball advanced to the next sample position in the *)
(* direction of its velocity (o.hop) and with which speed a paddle in      *)
(* contact with the ball sent it away (o.kick, 0 for no strike).  Paddles  *)
(* move by PaddleHop in the direction of the force on them, and the lower  *)
(* paddle is dragged by its pivot joint to the control point mouse_body.   *)
(***************************************************************************)
EXTENDS Integers, Sequences, FiniteSets

VARIABLES
    env,            \* "none" before AirHockeyEnv() is constructed, else "created"
    with_bot,       \* self.with_bot
    render_mode,    \* self.render_mode: "none" or "human"
    screen,         \* self.screen: "none" (None) or "open"
    ball,           \* self.ball.body: [x, y, vx, vy]
    ai_paddle,      \* self.ai_paddle.body.position: [x, y]
    agent_paddle,   \* self.agent_paddle.body.position: [x, y]
    mouse_body,     \* self.mouse_body.position: [x, y]
    force,          \* self.ai_paddle.body.force (accumulator): [x, y]
    steps,          \* self.steps
    obs,            \* observation last returned by reset()/step()
    reward,         \* reward last returned by step()
    terminated,     \* terminated flag last returned by step()
    truncated,      \* truncated flag last returned by step()
    pc,             \* position of the caller: "api", or a label of play_game
    fake_obs,       \* play_game: the observation built for model.predict
    policy_action,  \* play_game: the action returned by model.predict
    msg             \* play_game: the message shown by render_text

vars == <<env, with_bot, render_mode, screen, ball, ai_paddle, agent_paddle,
          mouse_body, force, steps, obs, reward, terminated, truncated, pc,
          fake_obs, policy_action, msg>>

(***************************************************************************)
(* Program constants.                                                      *)
(***************************************************************************)
width == 500
height == 700
paddle_radius == 25
ball_radius == 15
goal_width == 180
force_mult == 50000
speed_limit == 8
max_steps == 2000
goal_reward == 10
RewardDen == 1000
vel_scale == 1000
launch_speed == 200
paddle_offset == 100
substeps == 10

(***************************************************************************)
(* Bounds of the model.                                                    *)
(***************************************************************************)
ActDen == 2          \* action components are multiples of 1 / ActDen
StepCap == 4         \* Spec: step calls per episode
BotCap == 31         \* SpecBot: step calls per episode
PlayCap == 4         \* SpecPlay: frames per episode before the window is closed
Overrun == 2         \* SpecEpisode: step calls made past max_steps
PaddleHop == 225     \* displacement of a paddle under a force during one step()

\* Sample positions of the ball, in increasing order.
BallXs == <<20, 248, 250, 252, 480>>
BallYs == <<-20, 0, 175, 350, 525, 700, 720>>
\* Speeds a struck ball may leave with.
KickSpeeds == {600, 1200}
\* Actions (numerators over ActDen), in and out of [-1, 1].
Actions == {<<0, 0>>, <<0, ActDen>>, <<2 * ActDen, 2 * ActDen>>, <<-3 * ActDen, 1>>,
            <<1, -1>>}
\* Mouse positions inside the window.
MousePositions == {[x |-> 0, y |-> 0], [x |-> width \div 2, y |-> height \div 2],
                   [x |-> width - 1, y |-> height - 1]}
WindowEvents == {"none", "quit", "esc"}
Outcomes == [hop : BOOLEAN, kick : KickSpeeds \cup {0}]
Still == [hop |-> FALSE, kick |-> 0]

(***************************************************************************)
(* Helpers (numpy).                                                        *)
(***************************************************************************)
Abs(a) == IF a < 0 THEN -a ELSE a
Sign(a) == IF a > 0 THEN 1 ELSE IF a < 0 THEN -1 ELSE 0
Clip(a, lo, hi) == IF a < lo THEN lo ELSE IF a > hi THEN hi ELSE a
Pos(px, py) == [x |-> px, y |-> py]
Zero == Pos(0, 0)
NoObs == <<0, 0, 0, 0, 0, 0, 0, 0>>
IndexOf(seq, v) == CHOOSE i \in 1..Len(seq) : seq[i] = v

(***************************************************************************)
(* _apply_action: the force added to the paddle's accumulator.             *)
(***************************************************************************)
NoClipAction(action) == action
ClipAction(action) == <<Clip(action[1], -ActDen, ActDen), Clip(action[2], -ActDen, ActDen)>>
AppliedForce(action) ==
    LET a == ClipAction(action)
    IN  Pos(a[1] * force_mult, a[2] * force_mult)
ApplyAction(f, action) ==
    LET g == AppliedForce(action)
    IN  Pos(f.x + g.x, f.y + g.y)

(***************************************************************************)
(* _move_bot: the new position of the control point.                       *)
(***************************************************************************)
BotNewX(ball_x, current_x) ==
    LET diff == ball_x - current_x
    IN  IF Abs(diff) < speed_limit THEN ball_x
        ELSE current_x + speed_limit * Sign(diff)
BotNoClip(new_x) == new_x
BotClip(new_x) == Clip(new_x, paddle_radius, width - paddle_radius)
MoveBot(b, m) == Pos(BotClip(BotNewX(b.x, m.x)), height - paddle_offset)

(***************************************************************************)
(* _constrain_paddle_movement.                                             *)
(***************************************************************************)
ConstrainAgent(p) ==
    Pos(Clip(p.x, paddle_radius, width - paddle_radius),
        Clip(p.y, height \div 2 + paddle_radius, height - paddle_radius))
ConstrainAiNoMidline(p) ==
    Pos(Clip(p.x, paddle_radius, width - paddle_radius),
        Clip(p.y, paddle_radius, height - paddle_radius))
ConstrainAi(p) ==
    Pos(Clip(p.x, paddle_radius, width - paddle_radius),
        Clip(p.y, paddle_radius, height \div 2 - paddle_radius))
Constrain(w) ==
    [w EXCEPT !.agent = ConstrainAgent(w.agent), !.ai = ConstrainAi(w.ai)]

(***************************************************************************)
(* space.step(dt / 10): the engine.  w is the world                        *)
(* [ball, ai, agent, mouse, force]; i is the number of the substep.        *)
(* The bodies change sample position in the first substep, while the force *)
(* applied before the loop is still on the paddle (the engine clears the   *)
(* accumulator at the end of every call).  The engine's collision response *)
(* is over-approximated: a paddle in contact may strike the ball or not,   *)
(* and a paddle never stops a ball it does not strike.                     *)
(***************************************************************************)
Contact(b, p) ==
    (b.x - p.x) * (b.x - p.x) + (b.y - p.y) * (b.y - p.y)
        <= (ball_radius + paddle_radius) * (ball_radius + paddle_radius)
\* The goal openings of _create_walls: the ball fits between the posts.
InGoalMouth(x) == Abs(x - width \div 2) <= goal_width \div 2 - ball_radius
InField(y) == y >= ball_radius /\ y <= height - ball_radius
Struck(w, o) ==
    IF o.kick # 0 /\ Contact(w.ball, w.ai) THEN [w.ball EXCEPT !.vy = o.kick]
    ELSE IF o.kick # 0 /\ Contact(w.ball, w.agent) THEN [w.ball EXCEPT !.vy = -o.kick]
    ELSE w.ball
HopX(b) ==
    LET j == IndexOf(BallXs, b.x) + Sign(b.vx)
    IN  IF j < 1 \/ j > Len(BallXs) THEN [b EXCEPT !.vx = -b.vx]
        ELSE [b EXCEPT !.x = BallXs[j]]
HopY(b) ==
    LET j == IndexOf(BallYs, b.y) + Sign(b.vy)
    IN  IF j < 1 \/ j > Len(BallYs) THEN b
        ELSE IF InField(BallYs[j]) \/ ~InField(b.y) \/ InGoalMouth(b.x)
             THEN [b EXCEPT !.y = BallYs[j]]
             ELSE [b EXCEPT !.vy = -b.vy]
BallAfter(w, o) ==
    LET b == Struck(w, o)
    IN  IF o.hop THEN HopY(HopX(b)) ELSE b
SpaceStep(w, o, i) ==
    IF i = 1
    THEN [ball  |-> BallAfter(w, o),
          ai    |-> Pos(w.ai.x + Sign(w.force.x) * PaddleHop,
                        w.ai.y + Sign(w.force.y) * PaddleHop),
          agent |-> w.mouse,
          mouse |-> w.mouse,
          force |-> Zero]
    ELSE [w EXCEPT !.agent = w.mouse, !.force = Zero]

\* for _ in range(10): space.step(dt/10); _constrain_paddle_movement()
RECURSIVE SubSteps(_, _, _)
SubSteps(i, w, o) ==
    IF i > substeps THEN w
    ELSE SubSteps(i + 1, Constrain(SpaceStep(w, o, i)), o)

(***************************************************************************)
(* _get_obs (numerators; ObsDen holds the divisors).                       *)
(***************************************************************************)
ObsDen == <<width, height, vel_scale, vel_scale, width, height, width, height>>
GetObsSwapped(b, a, p) == <<b.y, b.x, b.vx, b.vy, a.x, a.y, p.x, p.y>>
GetObs(b, a, p) == <<b.x, b.y, b.vx, b.vy, a.x, a.y, p.x, p.y>>

(***************************************************************************)
(* The reward and flags computed by step().                                *)
(***************************************************************************)
GoalReward(ball_y) ==
    IF ball_y < 0 THEN goal_reward * RewardDen
    ELSE IF ball_y > height THEN -goal_reward * RewardDen
    ELSE 0
Shaping(ball_y) == IF 2 * ball_y < height THEN 1 ELSE 0
StepRewardElif(ball_y) ==
    IF GoalReward(ball_y) # 0 THEN GoalReward(ball_y) ELSE Shaping(ball_y)
StepReward(ball_y) == GoalReward(ball_y) + Shaping(ball_y)
TerminatedOnLine(ball_y) == ball_y <= 0 \/ ball_y >= height
Terminated(ball_y) == ball_y < 0 \/ ball_y > height
TruncatedAtLimit(n) == n >= max_steps
Truncated(n) == n > max_steps

(***************************************************************************)
(* render(): the window is opened when there is none, then a QUIT event or *)
(* the ESC key closes it.                                                  *)
(***************************************************************************)
Render(scr, ev) == IF ev \in {"quit", "esc"} THEN "none" ELSE "open"

(***************************************************************************)
(* reset(): launch is the velocity of the new ball.                        *)
(***************************************************************************)
ResetEnv(launch) ==
    /\ ball' = [x |-> width \div 2, y |-> height \div 2, vx |-> launch[1], vy |-> launch[2]]
    /\ ai_paddle' = Pos(width \div 2, paddle_offset)
    /\ agent_paddle' = Pos(width \div 2, height - paddle_offset)
    /\ mouse_body' = Pos(width \div 2, height - paddle_offset)
    /\ force' = Zero
    /\ steps' = 0
    /\ obs' = GetObs(ball', ai_paddle', agent_paddle')

LaunchSet == -launch_speed..launch_speed
Launches(bot) == IF bot THEN LaunchSet \X LaunchSet ELSE {<<0, 0>>}

Reset(launch) ==
    /\ env = "created"
    /\ pc = "api"
    /\ launch \in Launches(with_bot)
    /\ ResetEnv(launch)
    /\ UNCHANGED <<env, with_bot, render_mode, screen, reward, terminated,
                   truncated, pc, fake_obs, policy_action, msg>>

(***************************************************************************)
(* step(action); ev is what the event queue holds when render() runs.      *)
(***************************************************************************)
World(m, f) == [ball |-> ball, ai |-> ai_paddle, agent |-> agent_paddle,
                mouse |-> m, force |-> f]
\* A strike needs a paddle touching the ball.
Possible(w, o) == o.kick # 0 => (Contact(w.ball, w.ai) \/ Contact(w.ball, w.agent))
\* The values step() returns once the physics has left the world w.
Returned(w, n) ==
    [w          |-> w,
     steps      |-> n,
     reward     |-> StepReward(w.ball.y),
     terminated |-> Terminated(w.ball.y),
     truncated  |-> Truncated(n),
     obs        |-> GetObs(w.ball, w.ai, w.agent)]
\* The first half of step(action), with the control point at m: the world
\* after the action, the bot and the ten substeps.
StepWorld(m, action, o) ==
    LET w0 == World(m, ApplyAction(force, action))
        w1 == IF with_bot THEN [w0 EXCEPT !.mouse = MoveBot(ball, m)] ELSE w0
    IN  SubSteps(1, w1, o)

Step(action, o) ==
    /\ env = "created"
    /\ pc = "api"
    /\ Possible(World(mouse_body, force), o)
    /\ \E w \in {StepWorld(mouse_body, action, o)} : \E r \in {Returned(w, steps + 1)} :
          /\ ball' = r.w.ball
          /\ ai_paddle' = r.w.ai
          /\ agent_paddle' = r.w.agent
          /\ mouse_body' = r.w.mouse
          /\ force' = r.w.force
          /\ steps' = r.steps
          /\ reward' = r.reward
          /\ terminated' = r.terminated
          /\ truncated' = r.truncated
          /\ obs' = r.obs
    /\ screen' = IF render_mode = "human" THEN Render(screen, "none") ELSE screen
    /\ UNCHANGED <<env, with_bot, render_mode, pc, fake_obs, policy_action, msg>>

(***************************************************************************)
(* manual_move_agent(mouse_x, mouse_y).                                    *)
(***************************************************************************)
ManualMoveAgent(m) ==
    /\ env = "created"
    /\ pc = "api"
    /\ mouse_body' = m
    /\ UNCHANGED <<env, with_bot, render_mode, screen, ball, ai_paddle, agent_paddle,
                   force, steps, obs, reward, terminated, truncated, pc, fake_obs,
                   policy_action, msg>>

(***************************************************************************)
(* The environment driven through its interface: construction and reset,   *)
(* then any sequence of step, reset and manual_move_agent.                 *)
(***************************************************************************)
InitEnv(bots, launches) ==
    /\ env = "created"
    /\ with_bot \in bots
    /\ render_mode = "none"
    /\ screen = "none"
    /\ \E launch \in launches :
          /\ launch \in Launches(with_bot)
          /\ ball = [x |-> width \div 2, y |-> height \div 2, vx |-> launch[1], vy |-> launch[2]]
    /\ ai_paddle = Pos(width \div 2, paddle_offset)
    /\ agent_paddle = Pos(width \div 2, height - paddle_offset)
    /\ mouse_body = Pos(width \div 2, height - paddle_offset)
    /\ force = Zero
    /\ steps = 0
    /\ obs = GetObs(ball, ai_paddle, agent_paddle)
    /\ reward = 0
    /\ terminated = FALSE
    /\ truncated = FALSE
    /\ pc = "api"
    /\ fake_obs = NoObs
    /\ policy_action = <<0, 0>>
    /\ msg = ""

\* The launches Spec draws from random.uniform(-200, 200).
SpecLaunches == {<<0, 0>>, <<0, -launch_speed>>, <<launch_speed, launch_speed>>}

Init == InitEnv(BOOLEAN, SpecLaunches)

Next ==
    \/ \E action \in Actions, o \in Outcomes : steps < StepCap /\ Step(action, o)
    \/ \E launch \in SpecLaunches : Reset(launch)
    \/ \E m \in MousePositions : ManualMoveAgent(m)

Spec == Init /\ [][Next]_vars

(***************************************************************************)
(* play_game (air_hockey.py).  model_found is os.path.exists(MODEL_PATH);  *)
(* ev is what the event queue holds when render() runs.                    *)
(***************************************************************************)
\* fake_obs: every y mirrored (1 - y/h = (h - y)/h), the y velocity negated.
FakeObs(b, a, p) == <<b.x, height - b.y, b.vx, -b.vy, a.x, height - a.y, p.x, height - p.y>>

\* The message of lines 95-100.
Announce(ball_y) ==
    IF ball_y < 0 THEN "YOU WIN!"
    ELSE IF ball_y > height THEN "AI WINS!"
    ELSE ""

\* Lines 40-50: the model file is looked for; the environment is built,
\* reset and rendered once.
PlayStart(model_found, ev) ==
    /\ pc = "start"
    /\ IF ~model_found
       THEN /\ pc' = "returned"
            /\ UNCHANGED <<env, with_bot, render_mode, screen, ball, ai_paddle,
                           agent_paddle, mouse_body, force, steps, obs>>
       ELSE /\ env' = "created"
            /\ render_mode' = "human"
            /\ with_bot' = FALSE
            /\ ResetEnv(<<0, 0>>)
            /\ screen' = Render(screen, ev)
            /\ pc' = "loop"
    /\ UNCHANGED <<reward, terminated, truncated, fake_obs, policy_action, msg>>

\* Lines 52-70: the window is looked at, then the observation is built.
PlayLoopNoCheck ==
    /\ pc = "loop"
    /\ fake_obs' = FakeObs(ball, ai_paddle, agent_paddle)
    /\ pc' = "predict"
    /\ UNCHANGED <<env, with_bot, render_mode, screen, ball, ai_paddle, agent_paddle,
                   mouse_body, force, steps, obs, reward, terminated, truncated,
                   policy_action, msg>>
PlayLoop ==
    /\ pc = "loop"
    /\ IF screen = "none"
       THEN pc' = "close" /\ fake_obs' = fake_obs
       ELSE pc' = "predict" /\ fake_obs' = FakeObs(ball, ai_paddle, agent_paddle)
    /\ UNCHANGED <<env, with_bot, render_mode, screen, ball, ai_paddle, agent_paddle,
                   mouse_body, force, steps, obs, reward, terminated, truncated,
                   policy_action, msg>>

\* Lines 73-74: the policy answers and its action is applied to ai_paddle.
PlayPredict(a) ==
    /\ pc = "predict"
    /\ policy_action' = a
    /\ force' = ApplyAction(force, a)
    /\ pc' = "frame"
    /\ UNCHANGED <<env, with_bot, render_mode, screen, ball, ai_paddle, agent_paddle,
                   mouse_body, steps, obs, reward, terminated, truncated, fake_obs, msg>>

\* Lines 77-83, pygame.error: the loop is left.
PlayMouseError ==
    /\ pc = "frame"
    /\ pc' = "close"
    /\ UNCHANGED <<env, with_bot, render_mode, screen, ball, ai_paddle, agent_paddle,
                   mouse_body, force, steps, obs, reward, terminated, truncated,
                   fake_obs, policy_action, msg>>

\* Lines 77-107: the mouse moves the control point, the environment steps
\* with a zero action, a goal is announced, and the environment is reset
\* after a goal or a timeout.  fake_obs and action are rebuilt by the next
\* iteration before they are read again: the frame leaves them cleared.
PlayFrame(m, o, evs) ==
    /\ pc = "frame"
    /\ Possible(World(m, force), o)
    /\ \E w \in {StepWorld(m, <<0, 0>>, o)} : \E r \in {Returned(w, steps + 1)} :
          /\ \E ev \in evs : screen' = Render(screen, ev)
          /\ reward' = r.reward
          /\ terminated' = r.terminated
          /\ truncated' = r.truncated
          /\ msg' = IF r.terminated THEN Announce(w.ball.y) ELSE msg
          /\ IF r.terminated \/ r.truncated
             THEN ResetEnv(<<0, 0>>)
             ELSE /\ ball' = w.ball
                  /\ ai_paddle' = w.ai
                  /\ agent_paddle' = w.agent
                  /\ mouse_body' = w.mouse
                  /\ force' = w.force
                  /\ steps' = r.steps
                  /\ obs' = r.obs
    /\ fake_obs' = NoObs
    /\ policy_action' = <<0, 0>>
    /\ pc' = "loop"
    /\ UNCHANGED <<env, with_bot, render_mode>>

\* Line 109: env.close().
PlayClose ==
    /\ pc = "close"
    /\ screen' = "none"
    /\ pc' = "done"
    /\ UNCHANGED <<env, with_bot, render_mode, ball, ai_paddle, agent_paddle,
                   mouse_body, force, steps, obs, reward, terminated, truncated,
                   fake_obs, policy_action, msg>>

InitPlay ==
    /\ env = "none"
    /\ with_bot = TRUE
    /\ render_mode = "none"
    /\ screen = "none"
    /\ ball = [x |-> 0, y |-> 0, vx |-> 0, vy |-> 0]
    /\ ai_paddle = Zero
    /\ agent_paddle = Zero
    /\ mouse_body = Zero
    /\ force = Zero
    /\ steps = 0
    /\ obs = NoObs
    /\ reward = 0
    /\ terminated = FALSE
    /\ truncated = FALSE
    /\ pc = "start"
    /\ fake_obs = NoObs
    /\ policy_action = <<0, 0>>
    /\ msg = ""

NextPlay ==
    \/ \E model_found \in BOOLEAN, ev \in WindowEvents : PlayStart(model_found, ev)
    \/ PlayLoop
    \/ \E a \in Actions : PlayPredict(a)
    \/ PlayMouseError
    \/ \E m \in MousePositions, o \in Outcomes :
          PlayFrame(m, o, IF steps < PlayCap THEN WindowEvents ELSE WindowEvents \ {"none"})
    \/ PlayClose

SpecPlay == InitPlay /\ [][NextPlay]_vars

(***************************************************************************)
(* The bot alone: the policy holds still, the ball runs along the centre   *)
(* line and the bot follows it.                                            *)
(***************************************************************************)
BotLaunches == {<<launch_speed, 0>>, <<-launch_speed, 0>>}
BotOutcomes == {o \in Outcomes : o.kick = 0}
InitBot == InitEnv({TRUE}, BotLaunches)
NextBot ==
    \/ \E o \in BotOutcomes : steps < BotCap /\ Step(<<0, 0>>, o)
    \/ \E launch \in BotLaunches : Reset(launch)
SpecBot == InitBot /\ [][NextBot]_vars

(***************************************************************************)
(* A whole episode in which nothing moves: the ball rests at the centre    *)
(* and the policy holds still, so only the step counter ends the episode.  *)
(***************************************************************************)
InitEpisode == InitEnv(BOOLEAN, {<<0, 0>>})
NextEpisode ==
    \/ steps < max_steps + Overrun /\ Step(<<0, 0>>, Still)
    \/ Reset(<<0, 0>>)
SpecEpisode == InitEpisode /\ [][NextEpisode]_vars

(***************************************************************************)
(* Claims.                                                                 *)
(***************************************************************************)
Stepped == env = "created" /\ steps > 0

\* C1 (as stated): after a step that leaves the ball above the top goal line
\* (y < 0), step returned terminated = true and a reward of exactly +10.
C1_TopGoalExactlyTen ==
    (Stepped /\ ball.y < 0) => (terminated /\ reward = goal_reward * RewardDen)

\* C1 (amended): after a step that leaves the ball above the top goal line,
\* step returned terminated = true and a reward of 10 + 0.001 = 10.001: the
\* shaping bonus for y < height / 2 is added to the goal reward.
C1_TopGoalTenPlusShaping ==
    (Stepped /\ ball.y < 0) => (terminated /\ reward = goal_reward * RewardDen + 1)

C1_Witness == Stepped /\ ball.y < 0 /\ terminated

\* C2: after a step that leaves the ball below the bottom goal line
\* (y > height), step returned terminated = true and a reward of exactly -10;
\* and terminated = false whenever the ball's y is within [0, height].
C2_BottomGoalMinusTen ==
    Stepped =>
        /\ ball.y > height => (terminated /\ reward = -goal_reward * RewardDen)
        /\ (ball.y >= 0 /\ ball.y <= height) => ~terminated

C2_Witness == Stepped /\ ball.y > height /\ reward < 0

\* C4: in every state after reset, step or manual_move_agent, both paddles
\* are inside the table and on their own half.
C4_PaddlesOnOwnHalf ==
    env = "created" =>
        /\ ai_paddle.x >= paddle_radius /\ ai_paddle.x <= width - paddle_radius
        /\ ai_paddle.y >= paddle_radius /\ 2 * ai_paddle.y <= height - 2 * paddle_radius
        /\ agent_paddle.x >= paddle_radius /\ agent_paddle.x <= width - paddle_radius
        /\ 2 * agent_paddle.y >= height + 2 * paddle_radius
        /\ agent_paddle.y <= height - paddle_radius

\* Both paddles pressed against the centre line, the lower one dragged there
\* by a mouse position in the upper half.
C4_Witness ==
    /\ Stepped
    /\ 2 * ai_paddle.y = height - 2 * paddle_radius
    /\ 2 * agent_paddle.y = height + 2 * paddle_radius
    /\ 2 * mouse_body.y < height

\* C6: while the ball is inside the table and its speed components are at
\* most 1000, the six position components of the observation lie in [0, 1]
\* and the two velocity components in [-1, 1].
BallInTable == ball.x >= 0 /\ ball.x <= width /\ ball.y >= 0 /\ ball.y <= height
BallSlow == Abs(ball.vx) <= vel_scale /\ Abs(ball.vy) <= vel_scale
C6_ObservationNormalised ==
    (env = "created" /\ BallInTable /\ BallSlow) =>
        /\ \A i \in {1, 2, 5, 6, 7, 8} : obs[i] >= 0 /\ obs[i] <= ObsDen[i]
        /\ \A i \in {3, 4} : obs[i] >= -ObsDen[i] /\ obs[i] <= ObsDen[i]

\* A struck ball on the bottom goal line, at less than 1000 pixels a second.
C6_Witness ==
    Stepped /\ BallInTable /\ BallSlow /\ obs[4] > launch_speed /\ obs[2] = height

\* C3 (as stated): with no termination, step call number n returns
\* truncated = true exactly when n >= 2000.
C3_TruncatedAtCall2000 ==
    (Stepped /\ ~terminated) => (truncated <=> steps >= max_steps)

\* C3 (amended): with no termination, step call number n returns truncated =
\* true exactly when n > 2000: call 2001 is the first that returns it.
C3_TruncatedAtCall2001 ==
    (Stepped /\ ~terminated) => (truncated <=> steps >= max_steps + 1)

C3_Witness == Stepped /\ ~terminated /\ steps = max_steps + 1 /\ truncated

\* C9 (as stated): the bot's control point keeps y = height - 100 and x in
\* [paddle_radius, width - paddle_radius]; one step lands it on the ball's x
\* (clipped) when the distance is below 8 and otherwise moves it exactly 8
\* toward the ball.
BotInRange ==
    /\ mouse_body.y = height - paddle_offset
    /\ mouse_body.x >= paddle_radius /\ mouse_body.x <= width - paddle_radius
BotMovedExactly ==
    LET diff == ball.x - mouse_body.x
    IN  IF Abs(diff) < speed_limit
        THEN mouse_body'.x = Clip(ball.x, paddle_radius, width - paddle_radius)
        ELSE mouse_body'.x = mouse_body.x + speed_limit * Sign(diff)
C9_BotMovesExactlyEight ==
    [][(BotInRange /\ (steps' = steps + 1 => BotMovedExactly))]_vars

\* C9 (amended): as stated, except that in both cases the new x is clipped
\* to [paddle_radius, width - paddle_radius], so the move toward the ball is
\* at most 8 and is shorter when the clip stops it.
BotMovedClipped ==
    LET diff == ball.x - mouse_body.x
    IN  /\ Abs(mouse_body'.x - mouse_body.x) <= speed_limit
        /\ IF Abs(diff) < speed_limit
           THEN mouse_body'.x = Clip(ball.x, paddle_radius, width - paddle_radius)
           ELSE mouse_body'.x = Clip(mouse_body.x + speed_limit * Sign(diff),
                                     paddle_radius, width - paddle_radius)
C9_BotMovesAtMostEight ==
    [][(BotInRange /\ BotInRange' /\ (steps' = steps + 1 => BotMovedClipped))]_vars

\* The bot stopped by the clip at the right wall, the ball beyond its reach.
C9_Witness ==
    Stepped /\ with_bot /\ mouse_body.x = width - paddle_radius /\ ball.x > mouse_body.x

\* C5 (as stated): the action is clamped to [-1, 1] per component and the
\* magnitude of the force vector applied to the paddle does not exceed
\* force_mult = 50000.  (Squares are taken in units of force_mult / ActDen.)
ForceSquared == (force.x \div force_mult) * (force.x \div force_mult)
                + (force.y \div force_mult) * (force.y \div force_mult)
ForceIsClampedAction ==
    /\ force.x = Clip(policy_action[1], -ActDen, ActDen) * force_mult
    /\ force.y = Clip(policy_action[2], -ActDen, ActDen) * force_mult
C5_ForceMagnitudeAtMost50000 ==
    pc = "frame" => (ForceIsClampedAction /\ ForceSquared <= ActDen * ActDen)

\* C5 (amended): the action is clamped to [-1, 1] per component and each
\* component of the force applied to the paddle is at most 50000 in absolute
\* value, so the magnitude of the force vector is at most 50000 * sqrt(2).
C5_ForceComponentsAtMost50000 ==
    pc = "frame" =>
        /\ ForceIsClampedAction
        /\ Abs(force.x) <= ActDen * force_mult
        /\ Abs(force.y) <= ActDen * force_mult
        /\ ForceSquared <= 2 * ActDen * ActDen

\* An action outside [-1, 1] in both components, clamped to the corner.
C5_Witness ==
    /\ pc = "frame"
    /\ policy_action[1] > ActDen /\ policy_action[2] > ActDen
    /\ force = Pos(ActDen * force_mult, ActDen * force_mult)

\* C7: the observation handed to the policy in play mode is the one _get_obs
\* gives for the same state (the AI paddle is the top paddle in play as in
\* training), so the AI paddle's normalized y lies in [0, 0.5].
C7_PlayObservationAsTrained ==
    pc = "predict" =>
        /\ fake_obs = GetObs(ball, ai_paddle, agent_paddle)
        /\ 2 * fake_obs[6] <= ObsDen[6]

\* C8: once the window has been closed the play loop makes no further step
\* call and exits through env.close(); a missing model file makes play_game
\* return before any environment exists.
C8_ClosedWindowEndsPlay ==
    /\ [](pc \in {"predict", "frame"} => screen = "open")
    /\ [](pc = "returned" => (env = "none" /\ steps = 0 /\ screen = "none"))
    /\ [](pc = "done" => screen = "none")
    /\ [][((pc = "loop" /\ screen = "none") => (pc' = "close" /\ steps' = steps))
          /\ (pc = "close" => (pc' = "done" /\ steps' = steps))]_vars

\* The loop has seen the window closed by render() after some frames.
C8_Witness == pc = "close" /\ screen = "none" /\ env = "created" /\ steps > 0

\* C10: the reward of step and the play driver agree on who scored: the
\* goal that gives the AI a positive reward is the one announced as
\* "AI WINS!", and the goal that gives it a negative reward is the one
\* announced as "YOU WIN!".
C10_RewardAgreesWithAnnouncement ==
    (env = "created" /\ pc = "loop" /\ terminated) =>
        /\ reward > 0 <=> msg = "AI WINS!"
        /\ reward < 0 <=> msg = "YOU WIN!"

====
